---------------------------- MODULE Spec2Model ----------------------------
(***************************************************************************)
(* A model of the thin-film reflectance code: materials.py (Material),     *)
(* utils.py (Y, make_interpolator), thinfilm.py (calculate_eta,            *)
(* OpticalAssembly) and the two sweep drivers cggraph.py and               *)
(* cggraph_parallel.py.                                                    *)
(*                                                                         *)
(* Numbers.  The code computes in IEEE complex doubles.  The model         *)
(* computes in exact arithmetic: a number is a Gaussian rational times a   *)
(* power of the free-space admittance Y (utils.py:5), which is kept as a   *)
(* symbol, or the single value NaN that stands for every non-finite        *)
(* double (nan and inf, which numpy produces instead of raising).  Phase   *)
(* thicknesses are kept in quarter turns (units of pi/2), where cos and    *)
(* sin are exact; a layer whose phase is not a whole real number of        *)
(* quarter turns is outside the model.                                     *)
(***************************************************************************)
EXTENDS Integers, Sequences, FiniteSets, TLC

VARIABLES
    matOp,       \* the last Material operation and its outcome
    asm,         \* the OpticalAssembly object (its four attributes), or NoAssembly
    substrate,   \* history: the substrate the assembly was constructed with
    layers,      \* history: the <<material, thickness>> of every successful stack_thin_film
    last,        \* the last OpticalAssembly operation and its outcome
    pending,     \* sweep: points of pool_tuple not yet handed to a worker
    worker,      \* sweep: each pool worker's position and local variables
    queue,       \* sweep: the manager queue's items, oldest first
    unfinished,  \* sweep: the queue's count of items put and not yet task_done
    event,       \* sweep: the manager event
    axes,        \* sweep: the patches added to the axes, in order
    plotter,     \* sweep: position of plot_rectangles_from_queue
    main,        \* sweep: position of the __main__ block
    res          \* sweep: the colours process() returned, by point

coreVars == <<asm, substrate, layers, last>>
sweepVars == <<pending, worker, queue, unfinished, event, axes, plotter, main, res>>
vars == <<matOp, asm, substrate, layers, last, pending, worker, queue, unfinished,
          event, axes, plotter, main, res>>

---------------------------------------------------------------------------
(* Bounds of the model *)

MaxLayers == 2       \* stack_thin_film calls on one assembly
PoolSize == 2        \* pool workers

---------------------------------------------------------------------------
(* Exact complex arithmetic *)

Abs(x) == IF x < 0 THEN -x ELSE x

RECURSIVE Gcd(_, _)
Gcd(a, b) == IF b = 0 THEN a ELSE Gcd(b, a % b)

\* every non-finite double
NaN == [nan |-> TRUE, re |-> 0, im |-> 0, den |-> 1, y |-> 0]

\* (re + i*im)/den * Y^y in lowest terms; zero is written 0/1 * Y^0
Lowest(re, im, den, y, g) ==
    [nan |-> FALSE, re |-> re \div g, im |-> im \div g, den |-> den \div g, y |-> y]

Cx(re, im, den, y) ==
    IF re = 0 /\ im = 0
    THEN [nan |-> FALSE, re |-> 0, im |-> 0, den |-> 1, y |-> 0]
    ELSE IF den < 0
    THEN Lowest(-re, -im, -den, y, Gcd(Gcd(Abs(re), Abs(im)), Abs(den)))
    ELSE Lowest(re, im, den, y, Gcd(Gcd(Abs(re), Abs(im)), Abs(den)))

Real(n) == Cx(n, 0, 1, 0)
Frac(n, d) == Cx(n, 0, d, 0)
Imag == Cx(0, 1, 1, 0)

IsZero(a) == ~a.nan /\ a.re = 0 /\ a.im = 0
IsFinite(a) == ~a.nan

Add(a, b) ==
    IF a.nan \/ b.nan THEN NaN
    ELSE Cx(a.re * b.den + b.re * a.den, a.im * b.den + b.im * a.den,
            a.den * b.den, IF IsZero(a) THEN b.y ELSE a.y)

Neg(a) == IF a.nan THEN NaN ELSE Cx(-a.re, -a.im, a.den, a.y)

Sub(a, b) == Add(a, Neg(b))

Mul(a, b) ==
    IF a.nan \/ b.nan THEN NaN
    ELSE Cx(a.re * b.re - a.im * b.im, a.re * b.im + a.im * b.re,
            a.den * b.den, a.y + b.y)

Conj(a) == IF a.nan THEN NaN ELSE Cx(a.re, -a.im, a.den, a.y)

\* a division that gives 0 for a zero divisor
DivQuiet(a, b) ==
    IF a.nan \/ b.nan THEN NaN
    ELSE IF IsZero(b) THEN Cx(0, 0, 1, 0)
    ELSE Cx((a.re * b.re + a.im * b.im) * b.den,
            (a.im * b.re - a.re * b.im) * b.den,
            a.den * (b.re * b.re + b.im * b.im), a.y - b.y)

\* numpy division: a zero divisor gives nan/inf, not an exception
Div(a, b) ==
    IF a.nan \/ b.nan \/ IsZero(b) THEN NaN
    ELSE Cx((a.re * b.re + a.im * b.im) * b.den,
            (a.im * b.re - a.re * b.im) * b.den,
            a.den * (b.re * b.re + b.im * b.im), a.y - b.y)

\* utils.Y: multiplication by the free-space admittance
TimesY(a) == IF a.nan THEN NaN ELSE Cx(a.re, a.im, a.den, a.y + 1)

---------------------------------------------------------------------------
(* Python values *)

\* what a wavelengths argument can be: a float, or a list, tuple or ndarray of floats
Wavelengths == {1, 2}
Grids == {<<1>>, <<2>>, <<1, 2>>}
WavelengthArgs ==
    [kind : {"scalar"}, v : {<<x>> : x \in Wavelengths}]
      \cup [kind : {"list", "tuple", "ndarray"}, v : Grids \cup {<< >>}]

\* a numpy result: a scalar or a one-dimensional array
Scalar(x) == [shape |-> "scalar", v |-> <<x>>]
Array(s) == [shape |-> "array", v |-> s]

\* whether len(x) is defined for a numpy result (a scalar has no len: TypeError)
HasLen(x) == x.shape = "array"

\* the outcome of a numpy operation that raised ValueError
ValueError == [shape |-> "ValueError", v |-> << >>]

\* numpy broadcasting of a binary operation over scalars and arrays; ValueError
\* where two arrays' lengths cannot be broadcast together
Broadcast(Op(_, _), a, b) ==
    CASE a.shape = "ValueError" \/ b.shape = "ValueError" -> ValueError
      [] a.shape = "scalar" /\ b.shape = "scalar" -> Scalar(Op(a.v[1], b.v[1]))
      [] a.shape = "scalar" /\ b.shape = "array" ->
            Array([i \in 1..Len(b.v) |-> Op(a.v[1], b.v[i])])
      [] a.shape = "array" /\ b.shape = "scalar" ->
            Array([i \in 1..Len(a.v) |-> Op(a.v[i], b.v[1])])
      [] OTHER ->
            IF Len(a.v) = Len(b.v)
            THEN Array([i \in 1..Len(a.v) |-> Op(a.v[i], b.v[i])])
            ELSE IF Len(a.v) = 1
            THEN Array([i \in 1..Len(b.v) |-> Op(a.v[1], b.v[i])])
            ELSE IF Len(b.v) = 1
            THEN Array([i \in 1..Len(a.v) |-> Op(a.v[i], b.v[1])])
            ELSE ValueError

\* a numpy function applied elementwise
Map(F(_), a) == [shape |-> a.shape, v |-> [i \in 1..Len(a.v) |-> F(a.v[i])]]

\* np.asarray(wavelengths) as a numpy operand
AsOperand(w) ==
    IF w.kind = "scalar" THEN Scalar(Real(w.v[1]))
    ELSE Array([i \in 1..Len(w.v) |-> Real(w.v[i])])

---------------------------------------------------------------------------
(* utils.py and materials.py *)

\* np.interp(x, keys, values): piecewise linear, clamped to the first and last sample
RECURSIVE InterpFrom(_, _, _, _)
InterpFrom(j, x, keys, values) ==
    IF x < keys[j + 1] \/ j + 1 = Len(keys)
    THEN Add(Real(values[j]),
             Frac((values[j + 1] - values[j]) * (x - keys[j]), keys[j + 1] - keys[j]))
    ELSE InterpFrom(j + 1, x, keys, values)

Interp(x, keys, values) ==
    IF x <= keys[1] THEN Real(values[1])
    ELSE IF x >= keys[Len(keys)] THEN Real(values[Len(values)])
    ELSE InterpFrom(1, x, keys, values)

\* the lambda make_interpolator returns, applied to a wavelengths argument
make_interpolator(keys, values, w) ==
    IF w.kind = "scalar" THEN Scalar(Interp(w.v[1], keys, values))
    ELSE Array([i \in 1..Len(w.v) |-> Interp(w.v[i], keys, values)])

\* the lambda Material.__init__ builds for a float: np.full for a list or ndarray,
\* the bare float for anything else
ConstantFn(c, w) ==
    IF w.kind = "list" \/ w.kind = "ndarray"
    THEN Array([i \in 1..Len(w.v) |-> Real(c)])
    ELSE Scalar(Real(c))

\* the dispersion files on disk: name -> its Wavelength(nm), n and k columns
DispersionFiles ==
    [name \in {"Si.txt", "Si3N4.txt", "SiO2.txt"} |->
        CASE name = "Si.txt" -> [wl |-> <<1, 3>>, n |-> <<3, 1>>, k |-> <<0, 0>>]
          [] name = "Si3N4.txt" -> [wl |-> <<2, 4>>, n |-> <<2, 3>>, k |-> <<0, 0>>]
          [] name = "SiO2.txt" -> [wl |-> <<1, 2>>, n |-> <<3, 5>>, k |-> <<0, 0>>]]

\* what can be passed as n or k: a float, an int, a path
FloatSrc(c) == [kind |-> "float", val |-> c, name |-> ""]
IntSrc(c) == [kind |-> "int", val |-> c, name |-> ""]
PathSrc(f) == [kind |-> "path", val |-> 0, name |-> f]

\* isinstance(x, float)
IsFloat(src) == src.kind = "float"

\* os.path.isfile(x); for an int it asks about a file descriptor, and the standard
\* streams are not regular files
IsFile(src) == src.kind = "path" /\ src.name \in DOMAIN DispersionFiles

RaisedFn == [tag |-> "TypeError", c |-> 0, keys |-> << >>, values |-> << >>]
ConstFn(c) == [tag |-> "const", c |-> c, keys |-> << >>, values |-> << >>]
InterpFn(keys, values) == [tag |-> "interp", c |-> 0, keys |-> keys, values |-> values]

\* one branch chain of Material.__init__: the function stored for a source, or
\* the TypeError raised; column is "n" or "k"
SourceFn(src, column) ==
    IF IsFloat(src) THEN ConstFn(src.val)
    ELSE IF IsFile(src)
    THEN LET Interpolator(data) ==
                 InterpFn(data.wl, IF column = "n" THEN data.n ELSE data.k)
         IN Interpolator(DispersionFiles[src.name])
    ELSE RaisedFn

\* Material.__init__(n, k): the object, or the exception raised (n is looked at first)
MaterialInit(n, k) ==
    LET Object(fn, fk) ==
            [err |-> IF fn = RaisedFn \/ fk = RaisedFn THEN "TypeError" ELSE "none",
             n |-> fn, k |-> IF fn = RaisedFn THEN RaisedFn ELSE fk]
    IN Object(SourceFn(n, "n"), SourceFn(k, "k"))

\* calling a stored self.n / self.k
Call(fn, w) ==
    IF fn.tag = "const" THEN ConstantFn(fn.c, w)
    ELSE make_interpolator(fn.keys, fn.values, w)

get_n(material, w) == Call(material.n, w)
get_k(material, w) == Call(material.k, w)

\* the sources and materials the model draws from
Sources == {FloatSrc(0), FloatSrc(1), IntSrc(1), PathSrc("Si.txt"), PathSrc("missing.txt")}
Materials == {MaterialInit(n, k) : n, k \in {FloatSrc(0), FloatSrc(1), PathSrc("Si.txt")}}

(* Material operations *)
MaterialNew(n, k) ==
    /\ matOp' = [op |-> "init", n |-> n, k |-> k, out |-> MaterialInit(n, k)]
    /\ UNCHANGED <<coreVars, sweepVars>>

MaterialGetN(m, w) ==
    /\ matOp' = [op |-> "get_n", mat |-> m, w |-> w, out |-> get_n(m, w)]
    /\ UNCHANGED <<coreVars, sweepVars>>

MaterialGetK(m, w) ==
    /\ matOp' = [op |-> "get_k", mat |-> m, w |-> w, out |-> get_k(m, w)]
    /\ UNCHANGED <<coreVars, sweepVars>>

---------------------------------------------------------------------------
(* thinfilm.py *)

\* the angles of incidence of the model, with np.cos of each
Angles == {"0", "pi/3"}
Cos(angle) == IF angle = "0" THEN Real(1) ELSE Frac(1, 2)

\* a phase is kept in quarter turns: 2*pi is 4
TwoPi == Real(4)

\* a phase whose cos and sin the model knows: a whole real number of quarter turns
Representable(delta) == delta.nan \/ (delta.im = 0 /\ delta.den = 1)

\* np.cos, np.sin of a phase in quarter turns
CosQ(delta) ==
    IF delta.nan THEN NaN
    ELSE CASE delta.re % 4 = 0 -> Real(1)
           [] delta.re % 4 = 2 -> Real(-1)
           [] OTHER -> Real(0)

SinQ(delta) ==
    IF delta.nan THEN NaN
    ELSE CASE delta.re % 4 = 1 -> Real(1)
           [] delta.re % 4 = 3 -> Real(-1)
           [] OTHER -> Real(0)

TimesI(a) == Mul(Imag, a)

\* N = n - ik
get_complex_index_of_refraction(material, wavelengths) ==
    Broadcast(Sub, get_n(material, wavelengths), Map(TimesI, get_k(material, wavelengths)))

\* the tilted optical admittance
calculate_eta(material, angle_of_incidence, model_with_p_waves, wavelengths) ==
    LET Tilted(y) ==
            IF model_with_p_waves
            THEN Broadcast(Div, y, Scalar(Cos(angle_of_incidence)))
            ELSE Broadcast(Mul, y, Scalar(Cos(angle_of_incidence)))
    IN Tilted(Map(TimesY, get_complex_index_of_refraction(material, wavelengths)))

NoAssembly == [err |-> "NoAssembly"]

\* OpticalAssembly.__init__: the object, or the TypeError of len() of a scalar.
\* char_mat[i] is the 2x1 matrix <<B, C>> of wavelength index i
OpticalAssemblyInit(wavelengths, substrate_material, angle_of_incidence, model_with_p_waves) ==
    LET Object(substrate_eta) ==
            IF ~HasLen(substrate_eta) THEN [err |-> "TypeError"]
            ELSE [err |-> "none",
                  wavelengths |-> wavelengths,
                  angle_of_incidence |-> angle_of_incidence,
                  model_with_p_waves |-> model_with_p_waves,
                  char_mat |-> [i \in 1..Len(substrate_eta.v) |->
                                   [B |-> Real(1), C |-> substrate_eta.v[i]]]]
    IN Object(calculate_eta(substrate_material, angle_of_incidence,
                            model_with_p_waves, wavelengths))

\* delta of stack_thin_film
Delta(self, material, thickness) ==
    LET Scale(N) == Mul(Mul(Mul(TwoPi, N), Real(thickness)), Cos(self.angle_of_incidence))
    IN Broadcast(Div,
                 Map(Scale, get_complex_index_of_refraction(material, self.wavelengths)),
                 AsOperand(self.wavelengths))

\* the four entries of thin_film_char_mat, each over the wavelengths
ThinFilmCharMat(self, material, thickness) ==
    LET Matrix(thin_film_eta, delta) ==
            [m11 |-> Map(CosQ, delta),
             m12 |-> Broadcast(Div, Map(TimesI, Map(SinQ, delta)), thin_film_eta),
             m21 |-> Broadcast(Mul, Map(TimesI, thin_film_eta), Map(SinQ, delta)),
             m22 |-> Map(CosQ, delta)]
    IN Matrix(calculate_eta(material, self.angle_of_incidence,
                            self.model_with_p_waves, self.wavelengths),
              Delta(self, material, thickness))

\* wavelength i's 2x2 matrix of a transposed (L, 2, 2) stack times a 2x1 matrix
MatMulTransposed(m, i, vec) ==
    [B |-> Add(Mul(m.m11[i], vec.B), Mul(m.m21[i], vec.C)),
     C |-> Add(Mul(m.m12[i], vec.B), Mul(m.m22[i], vec.C))]

\* wavelength i's 2x2 matrix of an (L, 2, 2) stack times a 2x1 matrix
MatMul(m, i, vec) ==
    [B |-> Add(Mul(m.m11[i], vec.B), Mul(m.m12[i], vec.C)),
     C |-> Add(Mul(m.m21[i], vec.B), Mul(m.m22[i], vec.C))]

\* stack_thin_film: the object after the call and the matrix returned
StackThinFilm(self, material, thickness) ==
    LET Entries(t) == [m11 |-> t.m11.v, m12 |-> t.m12.v, m21 |-> t.m21.v, m22 |-> t.m22.v]
        Outcome(thin_film_char_mat) ==
            IF \E e \in {thin_film_char_mat.m11, thin_film_char_mat.m12,
                         thin_film_char_mat.m21, thin_film_char_mat.m22} :
                  e.shape = "ValueError" \/ Len(e.v) # Len(self.char_mat)
            THEN [err |-> "ValueError", self |-> self, ret |-> thin_film_char_mat]
            ELSE [err |-> "none",
                  self |-> [self EXCEPT !.char_mat =
                               [i \in 1..Len(self.char_mat) |->
                                   MatMul(Entries(thin_film_char_mat), i, self.char_mat[i])]],
                  ret |-> thin_film_char_mat]
    IN Outcome(ThinFilmCharMat(self, material, thickness))

\* the array the name R is bound to when `R *= np.conj(R)` runs: "fresh", the new
\* array the division made, or "B", a view of char_mat's top row
InPlaceTargetView == "B"
InPlaceTarget == "fresh"

\* the input optical admittance of the assembly: gamma = C / B
GammaInverted(B, C) == Broadcast(Div, B, C)
Gamma(B, C) == Broadcast(Div, C, B)

\* calculate_assembly_reflectance: the object after the call and the array returned
CalculateAssemblyReflectance(self, incident_medium_material) ==
    LET Outcome(R) ==
            [self |-> IF InPlaceTarget = "fresh" THEN self
                      ELSE [self EXCEPT !.char_mat =
                               [i \in 1..Len(self.char_mat) |-> [@[i] EXCEPT !.B = R.v[i]]]],
             out |-> R]
        \* R *= np.conj(R)
        TimesConj(R) == Outcome(Broadcast(Mul, R, Map(Conj, R)))
        \* R = (incident_medium_eta - gamma) / (incident_medium_eta + gamma)
        Ratio(incident_medium_eta, gamma) ==
            TimesConj(Broadcast(Div, Broadcast(Sub, incident_medium_eta, gamma),
                                     Broadcast(Add, incident_medium_eta, gamma)))
    IN Ratio(calculate_eta(incident_medium_material, self.angle_of_incidence,
                           self.model_with_p_waves, self.wavelengths),
             Gamma(Array([i \in 1..Len(self.char_mat) |-> self.char_mat[i].B]),
                   Array([i \in 1..Len(self.char_mat) |-> self.char_mat[i].C])))

---------------------------------------------------------------------------
(* The OpticalAssembly state machine *)

\* the wavelengths arguments an assembly is constructed with
AssemblyGrids ==
    [kind : {"tuple", "ndarray"}, v : {<<1, 2>>}] \cup [kind : {"scalar"}, v : {<<2>>}]
Thicknesses == {0, 1}

\* the materials an assembly is built from: air, a medium of index 0, an absorbing
\* medium and a dispersive one
Air == MaterialInit(FloatSrc(1), FloatSrc(0))
Void == MaterialInit(FloatSrc(0), FloatSrc(0))
Lossy == MaterialInit(FloatSrc(1), FloatSrc(1))
Si == MaterialInit(PathSrc("Si.txt"), PathSrc("Si.txt"))
CoreMaterials == {Air, Void, Lossy, Si}

\* every phase of the layer is one the model knows
InModel(self, material, thickness) ==
    \A delta \in {Delta(self, material, thickness)} :
        \A i \in 1..Len(delta.v) : Representable(delta.v[i])

Construct(wavelengths, substrate_material, angle_of_incidence, model_with_p_waves) ==
    /\ asm = NoAssembly
    /\ \E r \in {OpticalAssemblyInit(wavelengths, substrate_material,
                                      angle_of_incidence, model_with_p_waves)} :
          /\ asm' = IF r.err = "none" THEN r ELSE asm
          /\ substrate' = IF r.err = "none" THEN substrate_material ELSE substrate
          /\ last' = [op |-> "init", err |-> r.err, wavelengths |-> wavelengths]
    /\ layers' = << >>
    /\ UNCHANGED <<matOp, sweepVars>>

Stack(material, thickness) ==
    /\ asm # NoAssembly
    /\ Len(layers) < MaxLayers
    /\ InModel(asm, material, thickness)
    /\ \E r \in {StackThinFilm(asm, material, thickness)} :
          /\ asm' = r.self
          /\ layers' = IF r.err = "none" THEN Append(layers, <<material, thickness>>)
                       ELSE layers
          /\ last' = [op |-> "stack", err |-> r.err, material |-> material,
                      thickness |-> thickness, before |-> asm, ret |-> r.ret]
    /\ UNCHANGED <<matOp, substrate, sweepVars>>

Reflect(incident_medium_material) ==
    /\ asm # NoAssembly
    /\ \E r \in {CalculateAssemblyReflectance(asm, incident_medium_material)} :
          /\ asm' = r.self
          /\ last' = [op |-> "reflectance", incident |-> incident_medium_material,
                      before |-> asm, out |-> r.out]
    /\ UNCHANGED <<matOp, substrate, layers, sweepVars>>

SweepIdle ==
    /\ pending = {}
    /\ worker = << >>
    /\ queue = << >>
    /\ unfinished = 0
    /\ event = FALSE
    /\ axes = << >>
    /\ plotter = "none"
    /\ main = "none"
    /\ res = << >>

Init ==
    /\ matOp = [op |-> "none"]
    /\ asm = NoAssembly
    /\ substrate = [err |-> "none"]
    /\ layers = << >>
    /\ last = [op |-> "none"]
    /\ SweepIdle

Next ==
    \/ \E w \in AssemblyGrids, m \in CoreMaterials, a \in Angles, p \in BOOLEAN :
          Construct(w, m, a, p)
    \/ \E m \in CoreMaterials, d \in Thicknesses : Stack(m, d)
    \/ \E m \in CoreMaterials : Reflect(m)

Spec == Init /\ [][Next]_vars

MaterialInitState ==
    /\ matOp = [op |-> "none"]
    /\ asm = NoAssembly
    /\ substrate = [err |-> "none"]
    /\ layers = << >>
    /\ last = [op |-> "none"]
    /\ SweepIdle

MaterialNext ==
    \/ \E n, k \in Sources : MaterialNew(n, k)
    \/ \E m \in Materials, w \in WavelengthArgs : MaterialGetN(m, w)
    \/ \E m \in Materials, w \in WavelengthArgs : MaterialGetK(m, w)

MaterialSpec == MaterialInitState /\ [][MaterialNext]_vars

---------------------------------------------------------------------------
(* cggraph.py and cggraph_parallel.py *)

\* the module-level materials, grid and thicknesses of both sweep scripts
SweepSi3N4 == MaterialInit(PathSrc("Si3N4.txt"), PathSrc("Si3N4.txt"))
SweepSiO2 == MaterialInit(PathSrc("SiO2.txt"), PathSrc("SiO2.txt"))
SweepWavelengths == [kind |-> "ndarray", v |-> <<2, 4>>]
SweepThicknesses == {0, 1}
pool_tuple == SweepThicknesses \X SweepThicknesses

\* np.real of a reflectance
RealPart(a) == IF a.nan THEN NaN ELSE Cx(a.re, 0, a.den, a.y)

\* the colour of a reflectance array: the colour library's conversion is a function
\* of the spectrum, and the model keeps the spectrum itself
ToRGB(reflectances) == [i \in 1..Len(reflectances.v) |-> RealPart(reflectances.v[i])]

\* the body of cggraph.py's double loop for one point
SequentialColour(thickness_si3n4, thickness_sio2) ==
    LET a0 == OpticalAssemblyInit(SweepWavelengths, Si, "0", FALSE)
        a1 == StackThinFilm(a0, SweepSi3N4, thickness_si3n4).self
        a2 == StackThinFilm(a1, SweepSiO2, thickness_sio2).self
    IN ToRGB(CalculateAssemblyReflectance(a2, Air).out)

Workers == 1..PoolSize

\* the memory a pool worker's call of process() keeps its assembly in: a local of
\* the call, in the worker's own process
SharedMemory(w) == 1
OwnMemory(w) == w

IdleWorker == [pc |-> "idle", task |-> <<0, 0>>, assembly |-> NoAssembly]

\* process(), first statement: a worker takes the next point and builds its assembly
ProcessConstruct(w) ==
    /\ main = "starmap"
    /\ worker[w].pc = "idle"
    /\ \E point \in pending :
          /\ pending' = pending \ {point}
          /\ worker' = [[worker EXCEPT ![w].pc = "built", ![w].task = point]
                           EXCEPT ![OwnMemory(w)].assembly =
                              OpticalAssemblyInit(SweepWavelengths, Si, "0", FALSE)]
    /\ UNCHANGED <<matOp, coreVars, queue, unfinished, event, axes, plotter, main, res>>

\* process(): the two stack_thin_film calls
ProcessStack(w) ==
    /\ worker[w].pc = "built"
    /\ LET a0 == worker[OwnMemory(w)].assembly
           a1 == StackThinFilm(a0, SweepSi3N4, worker[w].task[1]).self
           a2 == StackThinFilm(a1, SweepSiO2, worker[w].task[2]).self
       IN worker' = [[worker EXCEPT ![w].pc = "stacked"]
                        EXCEPT ![OwnMemory(w)].assembly = a2]
    /\ UNCHANGED <<matOp, coreVars, pending, queue, unfinished, event, axes, plotter,
                   main, res>>

\* process(): the reflectance, its colour, the rectangle put on the queue, the return
ProcessPut(w) ==
    /\ worker[w].pc = "stacked"
    /\ \E rgb \in {ToRGB(CalculateAssemblyReflectance(worker[OwnMemory(w)].assembly,
                                                       Air).out)} :
          /\ queue' = Append(queue, [xy |-> worker[w].task, facecolor |-> rgb])
          /\ res' = (worker[w].task :> rgb) @@ res
    /\ unfinished' = unfinished + 1
    /\ worker' = [worker EXCEPT ![w] = IdleWorker]
    /\ UNCHANGED <<matOp, coreVars, pending, event, axes, plotter, main>>

\* plot_rectangles_from_queue: the loop test
PlotterTest ==
    /\ plotter = "test"
    /\ plotter' = IF event THEN "show" ELSE "get"
    /\ UNCHANGED <<matOp, coreVars, pending, worker, queue, unfinished, event, axes,
                   main, res>>

\* queue.get(block=False) and add_patch, or Empty and pass
PlotterGet ==
    /\ plotter = "get"
    /\ IF queue = << >>
       THEN /\ plotter' = "test"
            /\ UNCHANGED <<queue, axes>>
       ELSE /\ axes' = Append(axes, Head(queue))
            /\ queue' = Tail(queue)
            /\ plotter' = "task_done"
    /\ UNCHANGED <<matOp, coreVars, pending, worker, unfinished, event, main, res>>

\* queue.task_done()
PlotterTaskDone ==
    /\ plotter = "task_done"
    /\ unfinished' = unfinished - 1
    /\ plotter' = "test"
    /\ UNCHANGED <<matOp, coreVars, pending, worker, queue, event, axes, main, res>>

\* plotting_process.start()
MainStartPlotter ==
    /\ main = "start"
    /\ main' = "starmap"
    /\ plotter' = "test"
    /\ UNCHANGED <<matOp, coreVars, pending, worker, queue, unfinished, event, axes, res>>

\* pool.starmap returns when every point has been processed
MainStarmapReturns ==
    /\ main = "starmap"
    /\ pending = {}
    /\ \A w \in Workers : worker[w].pc = "idle"
    /\ main' = "q.join"
    /\ UNCHANGED <<matOp, coreVars, pending, worker, queue, unfinished, event, axes,
                   plotter, res>>

\* what q.join() waits for
QueueJoinSkipped == TRUE
QueueJoined == unfinished = 0

\* q.join() returns, and e.set()
MainSetEvent ==
    /\ main = "q.join"
    /\ QueueJoined
    /\ event' = TRUE
    /\ main' = "plotting_process.join"
    /\ UNCHANGED <<matOp, coreVars, pending, worker, queue, unfinished, axes, plotter, res>>

\* plotting_process.join() returns once the plotting process has left its loop and
\* shown the plot
MainJoinPlotter ==
    /\ main = "plotting_process.join"
    /\ plotter = "show"
    /\ main' = "done"
    /\ UNCHANGED <<matOp, coreVars, pending, worker, queue, unfinished, event, axes,
                   plotter, res>>

SweepInit ==
    /\ matOp = [op |-> "none"]
    /\ asm = NoAssembly
    /\ substrate = [err |-> "none"]
    /\ layers = << >>
    /\ last = [op |-> "none"]
    /\ pending = pool_tuple
    /\ worker = [w \in Workers |-> IdleWorker]
    /\ queue = << >>
    /\ unfinished = 0
    /\ event = FALSE
    /\ axes = << >>
    /\ plotter = "none"
    /\ main = "start"
    /\ res = << >>

PlotterStep == PlotterTest \/ PlotterGet \/ PlotterTaskDone
MainStep == MainStartPlotter \/ MainStarmapReturns \/ MainSetEvent \/ MainJoinPlotter

SweepNext ==
    \/ \E w \in Workers : ProcessConstruct(w)
    \/ \E w \in Workers : ProcessStack(w)
    \/ \E w \in Workers : ProcessPut(w)
    \/ PlotterTest
    \/ PlotterGet
    \/ PlotterTaskDone
    \/ MainStartPlotter
    \/ MainStarmapReturns
    \/ MainSetEvent
    \/ MainJoinPlotter

\* the main process and the plotting process keep running: each takes its next step
\* when it can (nothing is assumed of the pool workers' progress)
SweepSpec ==
    /\ SweepInit
    /\ [][SweepNext]_vars
    /\ WF_vars(MainStep)
    /\ WF_vars(PlotterStep)

---------------------------------------------------------------------------
(* Reference definitions for the properties: one wavelength at a time *)

NAt(material, lambda) ==
    LET w == [kind |-> "ndarray", v |-> <<lambda>>]
    IN Sub(get_n(material, w).v[1], TimesI(get_k(material, w).v[1]))

EtaAt(material, lambda, angle, p) ==
    IF p THEN Div(TimesY(NAt(material, lambda)), Cos(angle))
    ELSE Mul(TimesY(NAt(material, lambda)), Cos(angle))

DeltaAt(material, thickness, lambda, angle) ==
    Div(Mul(Mul(Mul(TwoPi, NAt(material, lambda)), Real(thickness)), Cos(angle)),
        Real(lambda))

LayerAt(material, thickness, lambda, angle, p) ==
    LET d == DeltaAt(material, thickness, lambda, angle)
        eta == EtaAt(material, lambda, angle, p)
    IN [m11 |-> CosQ(d), m12 |-> Div(TimesI(SinQ(d)), eta),
        m21 |-> Mul(TimesI(eta), SinQ(d)), m22 |-> CosQ(d)]

Apply(L, vec) ==
    [B |-> Add(Mul(L.m11, vec.B), Mul(L.m12, vec.C)),
     C |-> Add(Mul(L.m21, vec.B), Mul(L.m22, vec.C))]

\* L_k * ... * L_1 * [1, eta_sub]^T at one wavelength
RECURSIVE Expected(_, _)
Expected(k, lambda) ==
    IF k = 0
    THEN [B |-> Real(1),
          C |-> EtaAt(substrate, lambda, asm.angle_of_incidence, asm.model_with_p_waves)]
    ELSE Apply(LayerAt(layers[k][1], layers[k][2], lambda, asm.angle_of_incidence,
                       asm.model_with_p_waves),
               Expected(k - 1, lambda))

Identity2(n) ==
    LET ones == Array([i \in 1..n |-> Real(1)])
        zeros == Array([i \in 1..n |-> Real(0)])
    IN [m11 |-> ones, m12 |-> zeros, m21 |-> zeros, m22 |-> ones]

\* a sequence without its i-th element
Drop(seq, i) == [j \in 1..(Len(seq) - 1) |-> IF j < i THEN seq[j] ELSE seq[j + 1]]

\* the assembly's history replayed over another wavelengths argument
RECURSIVE Replay(_, _)
Replay(k, wavelengths) ==
    IF k = 0
    THEN OpticalAssemblyInit(wavelengths, substrate, asm.angle_of_incidence,
                             asm.model_with_p_waves)
    ELSE StackThinFilm(Replay(k - 1, wavelengths), layers[k][1], layers[k][2]).self

\* whether the material's evaluation has exactly the length of the grid
EvalMatchesGrid(material, wavelengths) ==
    /\ HasLen(get_n(material, wavelengths))
    /\ HasLen(get_k(material, wavelengths))
    /\ Len(get_n(material, wavelengths).v) = Len(wavelengths.v)
    /\ Len(get_k(material, wavelengths).v) = Len(wavelengths.v)

---------------------------------------------------------------------------
(* Properties of the OpticalAssembly state machine *)

\* C1: after construction and any sequence of stack_thin_film calls, char_mat has one
\* 2x1 matrix per wavelength, and the one at index i is L_k * ... * L_1 * [1, eta_sub]^T
\* computed from wavelength i alone.
C1_RunningMatrix ==
    asm # NoAssembly =>
        /\ Len(asm.char_mat) = Len(asm.wavelengths.v)
        /\ \A i \in 1..Len(asm.char_mat) :
              asm.char_mat[i] = Expected(Len(layers), asm.wavelengths.v[i])

C1_Witness ==
    /\ last.op = "stack"
    /\ Len(layers) = 2
    /\ layers[1][2] = 1 /\ layers[2][2] = 1
    /\ layers[1][1] # layers[2][1]
    /\ \E i \in 1..Len(asm.char_mat) :
          ~IsZero(last.ret.m12.v[i]) /\ ~IsZero(last.before.char_mat[i].B)
    /\ \A i \in 1..Len(asm.char_mat) :
          IsFinite(asm.char_mat[i].B) /\ IsFinite(asm.char_mat[i].C)

\* C2 (as claimed): stack_thin_film(material, 0) returns the identity layer matrix and
\* leaves the reflectance for every incident medium as it was before the call.
C2_ZeroThicknessNoOp ==
    (last.op = "stack" /\ last.thickness = 0) =>
        /\ last.ret = Identity2(Len(asm.char_mat))
        /\ \A inc \in CoreMaterials :
              CalculateAssemblyReflectance(asm, inc).out
                 = CalculateAssemblyReflectance(last.before, inc).out

\* C4 (as claimed): a stack_thin_film whose material does not evaluate to exactly the
\* grid's length fails and leaves char_mat as it was.
C4_DimensionMismatchRaised ==
    (last.op = "stack" /\ ~EvalMatchesGrid(last.material, last.before.wavelengths)) =>
        /\ last.err # "none"
        /\ asm.char_mat = last.before.char_mat

\* C5: calculate_assembly_reflectance returns an array (it does not raise); where B is 0
\* the value is non-finite, and every other wavelength has the value it has when the
\* history is replayed over the grid without that wavelength.
C5_ZeroBNonFinite ==
    last.op = "reflectance" =>
        /\ last.out.shape = "array"
        /\ Len(last.out.v) = Len(asm.char_mat)
        /\ \A i \in 1..Len(asm.char_mat) :
              IsZero(asm.char_mat[i].B) =>
                 /\ ~IsFinite(last.out.v[i])
                 /\ LET w == [asm.wavelengths EXCEPT !.v = Drop(@, i)]
                        without == CalculateAssemblyReflectance(
                                       Replay(Len(layers), w), last.incident).out
                    IN Drop(last.out.v, i) = without.v

C5_Witness ==
    /\ last.op = "reflectance"
    /\ \E i, j \in 1..Len(asm.char_mat) :
          /\ IsZero(asm.char_mat[i].B)
          /\ ~IsZero(asm.char_mat[i].C)
          /\ IsFinite(last.out.v[j])
          /\ ~IsZero(last.out.v[j])

\* C7 (as claimed): with no layer stacked and the incident medium equal to the
\* substrate, the reflectance is 0 at every wavelength.
C7_MatchedZero ==
    (last.op = "reflectance" /\ layers = << >> /\ last.incident = substrate) =>
        \A i \in 1..Len(last.out.v) : last.out.v[i] = Real(0)

\* C7 (amended): with no layer stacked and the incident medium equal to the substrate,
\* the reflectance is 0 at every wavelength where the substrate's tilted admittance is
\* finite and not 0, and non-finite where that admittance is 0.
C7_MatchedZeroNondegenerate ==
    (last.op = "reflectance" /\ layers = << >> /\ last.incident = substrate) =>
        /\ Len(last.out.v) = Len(asm.wavelengths.v)
        /\ \A i \in 1..Len(last.out.v) :
              LET eta == EtaAt(substrate, asm.wavelengths.v[i], asm.angle_of_incidence,
                               asm.model_with_p_waves)
              IN IF IsFinite(eta) /\ ~IsZero(eta)
                 THEN last.out.v[i] = Real(0)
                 ELSE ~IsFinite(last.out.v[i])

C7_Witness ==
    /\ last.op = "reflectance" /\ layers = << >> /\ last.incident = substrate
    /\ asm.model_with_p_waves /\ asm.angle_of_incidence = "pi/3"
    /\ \A i \in 1..Len(last.out.v) : last.out.v[i] = Real(0)

\* C10: calculate_assembly_reflectance leaves the assembly as it was, so the same
\* query made again returns the same array.
C10_PureRead ==
    last.op = "reflectance" =>
        /\ asm = last.before
        /\ CalculateAssemblyReflectance(asm, last.incident).out = last.out

C10_Witness ==
    /\ last.op = "reflectance"
    /\ Len(layers) = MaxLayers
    /\ \E i \in 1..Len(last.out.v) : IsFinite(last.out.v[i]) /\ ~IsZero(last.out.v[i])

---------------------------------------------------------------------------
(* Properties of Material *)

\* a numeric constant, or a dispersion file that exists
Acceptable(src) == src.kind \in {"float", "int"} \/ IsFile(src)

\* C3 (as claimed): Material(n, k) fails exactly when n or k is neither a numeric
\* constant nor an existing dispersion file.
C3_ConstructionFailsIffUnresolvable ==
    matOp.op = "init" =>
        (matOp.out.err # "none" <=> ~(Acceptable(matOp.n) /\ Acceptable(matOp.k)))

\* C6 (as claimed): get_n and get_k give a scalar for a scalar and, for a list, tuple
\* or array of length L, a sequence of length L; a constant material gives its
\* constant in every element.
C6_Vectorized ==
    matOp.op \in {"get_n", "get_k"} =>
        LET fn == IF matOp.op = "get_n" THEN matOp.mat.n ELSE matOp.mat.k
        IN /\ matOp.w.kind = "scalar" => matOp.out.shape = "scalar"
           /\ matOp.w.kind # "scalar" =>
                 matOp.out.shape = "array" /\ Len(matOp.out.v) = Len(matOp.w.v)
           /\ fn.tag = "const" =>
                 \A i \in 1..Len(matOp.out.v) : matOp.out.v[i] = Real(fn.c)

---------------------------------------------------------------------------
(* Properties of the parallel sweep *)

SweepPoints(seq) == {seq[i].xy : i \in 1..Len(seq)}

\* C8: every rectangle, on the queue or on the axes, and every returned colour carries
\* the colour the sequential sweep computes for its own coordinate, whatever the
\* interleaving; when the plotting loop is left the axes hold one rectangle per point.
C8_ColourByCoordinate ==
    /\ \A i \in 1..Len(queue) :
          queue[i].facecolor = SequentialColour(queue[i].xy[1], queue[i].xy[2])
    /\ \A i \in 1..Len(axes) :
          axes[i].facecolor = SequentialColour(axes[i].xy[1], axes[i].xy[2])
    /\ \A point \in DOMAIN res : res[point] = SequentialColour(point[1], point[2])
    /\ plotter = "show" => SweepPoints(axes) = pool_tuple /\ DOMAIN res = pool_tuple

C8_Witness ==
    /\ plotter = "show"
    /\ Len(axes) = Cardinality(pool_tuple)
    /\ axes[1].xy = <<1, 1>>
    /\ \A i, j \in 1..Len(axes) : i # j => axes[i].facecolor # axes[j].facecolor

AllWorkersDone == main # "none" /\ pending = {} /\ \A w \in Workers : worker[w].pc = "idle"

C9_Safety ==
    /\ event =>
          /\ AllWorkersDone
          /\ queue = << >>
          /\ unfinished = 0
          /\ plotter # "task_done"
          /\ Len(axes) = Cardinality(pool_tuple)
    /\ plotter = "show" =>
          /\ Len(axes) = Cardinality(pool_tuple)
          /\ SweepPoints(axes) = pool_tuple

\* C9: the event is set only once every worker has finished and every rectangle put
\* has been taken and acknowledged; when the plotting loop is left the axes hold
\* exactly one rectangle per sweep point; and once all workers are done the loop is
\* eventually left.
C9_StopAfterDrain == []C9_Safety /\ (AllWorkersDone ~> plotter = "show")

C9_Witness ==
    /\ plotter = "show"
    /\ main = "done"
    /\ event
    /\ Len(axes) = Cardinality(pool_tuple)

===========================================================================
